---- MODULE Spec2Model ----
(***************************************************************************)
(* A model of src/main.rs: the pinhole camera (Ray::create_prime), the     *)
(* ray/sphere test (Sphere::intersect) and the per-pixel loop (render).    *)
(*                                                                         *)
(* Numbers.  The program computes in f64.  The model computes in exact     *)
(* rational arithmetic: a scalar is a fraction [n, d] in lowest terms with *)
(* d > 0, and a direction is an integer vector num together with the       *)
(* square den2 of its divisor, standing for num / sqrt(den2), so that      *)
(* Vector3::normalize (a division by an irrational length) stays exact.    *)
(* On integer inputs with den2 = 1 every f64 operation of intersect is     *)
(* exact and the model coincides with the program; elsewhere the model is  *)
(* the program without rounding error.                                     *)
(***************************************************************************)
EXTENDS Integers, Sequences, FiniteSets, TLC

VARIABLES scene, pc, x, y, image, writes, ray, sens, hit, colour,
          k, hitScaled, hitReversed

vars == <<scene, pc, x, y, image, writes, ray, sens, hit, colour,
          k, hitScaled, hitReversed>>

(***************************************************************************)
(* Bounds of the model.                                                    *)
(***************************************************************************)
MaxDim == 4
MaxProbeDim == 10
MaxCoord == 2
MaxRadius == 2
MaxK == 3

(***************************************************************************)
(* Exact rational arithmetic standing for f64.                             *)
(***************************************************************************)
Abs(a) == IF a < 0 THEN -a ELSE a

\* The arithmetic is written as functions (GCD[a, b], RAdd[a, b], ...), not
\* as operators, so that an argument is a value when the function is applied
\* and is not evaluated again at each of its uses.
GCD[a \in Nat, b \in Nat] == IF b = 0 THEN a ELSE GCD[b, a % b]

\* The fraction n / d in lowest terms, d > 0.
Fraction[n \in Int, d \in Int] ==
    LET s == IF d < 0 THEN -1 ELSE 1
        g == GCD[Abs(n), Abs(d)]
    IN  IF g = 0 THEN [n |-> 0, d |-> 1]
        ELSE [n |-> (s * n) \div g, d |-> (s * d) \div g]

Rat(n, d) == Fraction[n, d]

Fractions == [n : Int, d : Int]

RInt(i) == [n |-> i, d |-> 1]
RAdd[a \in Fractions, b \in Fractions] == Rat(a.n * b.d + b.n * a.d, a.d * b.d)
RSub[a \in Fractions, b \in Fractions] == Rat(a.n * b.d - b.n * a.d, a.d * b.d)
RMul[a \in Fractions, b \in Fractions] == Rat(a.n * b.n, a.d * b.d)
RDiv[a \in Fractions, b \in Fractions] == Rat(a.n * b.d, a.d * b.n)
RNeg(a) == [n |-> -a.n, d |-> a.d]
RAbs(a) == [n |-> Abs(a.n), d |-> a.d]
RLess(a, b) == a.n * b.d < b.n * a.d
RLeq(a, b) == a.n * b.d <= b.n * a.d

(***************************************************************************)
(* Points and vectors (cgmath Point3 / Vector3) with integer components.   *)
(***************************************************************************)
VSub(a, b) == <<a[1] - b[1], a[2] - b[2], a[3] - b[3]>>
VScale(a, c) == <<a[1] * c, a[2] * c, a[3] * c>>
VNeg(a) == <<-a[1], -a[2], -a[3]>>
Dot(a, b) == a[1] * b[1] + a[2] * b[2] + a[3] * b[3]
Cross(a, b) == <<a[2] * b[3] - a[3] * b[2],
                 a[3] * b[1] - a[1] * b[3],
                 a[1] * b[2] - a[2] * b[1]>>

\* A direction num / sqrt(den2).
Dir(num, den2) == [num |-> num, den2 |-> den2]
IsUnit(dir) == Dot(dir.num, dir.num) = dir.den2

\* Vector3 { x: sx, y: sy, z: sz } of three fractions, as a direction: the
\* three fractions over their common denominator, common factors removed.
Vector3[sx \in Fractions, sy \in Fractions, sz \in Fractions] ==
    LET a == sx.n * sy.d * sz.d
        b == sy.n * sx.d * sz.d
        c == sz.n * sx.d * sy.d
        q == sx.d * sy.d * sz.d
        g == GCD[GCD[GCD[Abs(a), Abs(b)], Abs(c)], q]
    IN  Dir(<<a \div g, b \div g, c \div g>>, (q \div g) * (q \div g))

\* InnerSpace::normalize: v / |v|.
normalize(dir) == Dir(dir.num, Dot(dir.num, dir.num))

\* InnerSpace::dot of an integer vector with a direction, squared.
DotDirSquared(l, dir) == Rat(Dot(l, dir.num) * Dot(l, dir.num), dir.den2)

(***************************************************************************)
(* Color, in tenths of full intensity per channel.                         *)
(***************************************************************************)
\* (gamma_encode(t / 10) * 255.0) as u8, with GAMMA = 2.2, computed in f32.
GammaTable == <<89, 122, 147, 168, 186, 202, 216, 230, 243, 255>>
gamma_encode_byte(t) == IF t = 0 THEN 0 ELSE GammaTable[t]

to_rgba(color) == <<gamma_encode_byte(color[1]), gamma_encode_byte(color[2]),
                    gamma_encode_byte(color[3]), 255>>
black == <<0, 0, 0, 0>>

(***************************************************************************)
(* The image buffer (DynamicImage::new_rgb8, put_pixel).                   *)
(***************************************************************************)
Locations(w, h) == (0 .. w - 1) \X (0 .. h - 1)

new_rgb8_swapped(w, h) ==
    [width |-> h, height |-> w, pixels |-> [p \in Locations(h, w) |-> <<0, 0, 0>>]]

new_rgb8(w, h) ==
    [width |-> w, height |-> h, pixels |-> [p \in Locations(w, h) |-> <<0, 0, 0>>]]

NoImage == [width |-> 0, height |-> 0, pixels |-> [p \in {} |-> <<0, 0, 0>>]]

\* An Rgb8 buffer keeps the three colour channels of the Rgba it is given.
put_pixel(img, loc, rgba) ==
    [img EXCEPT !.pixels = [img.pixels EXCEPT ![loc] = <<rgba[1], rgba[2], rgba[3]>>]]

PixelLocSwapped(px, py) == <<py, px>>

PixelLoc(px, py) == <<px, py>>

(***************************************************************************)
(* Ray::create_prime.                                                      *)
(***************************************************************************)
\* tan(fov.to_radians() / 2) for the angles of the model.
TanHalfFov(fov) ==
    CASE fov = 90 -> RInt(1)
      [] fov = 0 -> RInt(0)
      [] fov = -90 -> RInt(-1)

sensor(scn, v) ==
    LET pixel_center == RAdd[RInt(v), Rat(1, 2)]
        normalized_to_width == RDiv[pixel_center, RInt(scn.width)]
        adjusted_screen_pos == RSub[RMul[normalized_to_width, RInt(2)], RInt(1)]
    IN  adjusted_screen_pos

NoRay == [origin |-> <<0, 0, 0>>, direction |-> Dir(<<0, 0, 0>>, 1)]
NoSens == [ndc_x |-> RInt(0), ndc_y |-> RInt(0),
           sensor_x |-> RInt(0), sensor_y |-> RInt(0)]

\* The body of create_prime after its assertion.
prime_ray(px, py, scn) ==
    LET fov_adjustment == TanHalfFov(scn.fov)
        aspect_ratio == RDiv[RInt(scn.width), RInt(scn.height)]
        sensor_x == RMul[RMul[sensor(scn, px), fov_adjustment], aspect_ratio]
        sensor_y == RMul[RNeg(sensor(scn, py)), fov_adjustment]
    IN  [ok |-> TRUE,
         ray |-> [origin |-> <<0, 0, 0>>,
                  direction |-> normalize(Vector3[sensor_x, sensor_y, RInt(-1)])],
         sens |-> [ndc_x |-> sensor(scn, px), ndc_y |-> sensor(scn, py),
                   sensor_x |-> sensor_x, sensor_y |-> sensor_y]]

Panicked == [ok |-> FALSE, ray |-> NoRay, sens |-> NoSens]

create_prime_row_assert(px, py, scn) ==
    IF scn.width > py THEN prime_ray(px, py, scn) ELSE Panicked

create_prime(px, py, scn) ==
    IF scn.width > scn.height THEN prime_ray(px, py, scn) ELSE Panicked

(***************************************************************************)
(* Sphere::intersect.                                                      *)
(***************************************************************************)
intersect_unsquared(sphere, r) ==
    LET l == VSub(sphere.center, r.origin)
        d2 == RSub[RInt(Dot(l, l)), DotDirSquared(l, r.direction)]
    IN  RLess(d2, RInt(sphere.radius))

intersect_forward(sphere, r) ==
    LET l == VSub(sphere.center, r.origin)
        d2 == RSub[RInt(Dot(l, l)), DotDirSquared(l, r.direction)]
    IN  Dot(l, r.direction.num) >= 0 /\ RLess(d2, RInt(sphere.radius * sphere.radius))

intersect_inclusive(sphere, r) ==
    LET l == VSub(sphere.center, r.origin)
        d2 == RSub[RInt(Dot(l, l)), DotDirSquared(l, r.direction)]
    IN  RLeq(d2, RInt(sphere.radius * sphere.radius))

intersect(sphere, r) ==
    LET l == VSub(sphere.center, r.origin)
        \* adj2 * adj2
        adj2_squared == DotDirSquared(l, r.direction)
        d2 == RSub[RInt(Dot(l, l)), adj2_squared]
    IN  RLess(d2, RInt(sphere.radius * sphere.radius))

\* The colour render hands to put_pixel for a pixel whose ray is r.
PixelColour(scn, r) ==
    IF intersect(scn.sphere, r) THEN to_rgba(scn.sphere.color) ELSE black

(***************************************************************************)
(* Scenes.                                                                 *)
(***************************************************************************)
Sphere(center, radius, color) == [center |-> center, radius |-> radius, color |-> color]
Scene(w, h, fov, sphere) == [width |-> w, height |-> h, fov |-> fov, sphere |-> sphere]

\* The scene of main and of test_can_render_scene.
MainSphere == Sphere(<<0, 0, -5>>, 1, <<4, 10, 4>>)
MainScene == Scene(800, 600, 90, MainSphere)

Fovs == {-90, 0, 90}
RenderSpheres == {MainSphere,
                  Sphere(<<0, 0, -2>>, 1, <<10, 0, 0>>),
                  Sphere(<<1, 0, -1>>, 0, <<0, 0, 10>>)}
RenderScenes ==
    {Scene(w, h, f, s) : w \in 0 .. MaxDim, h \in 0 .. MaxDim, f \in Fovs, s \in RenderSpheres}

(***************************************************************************)
(* render, one step of its loops at a time.                                *)
(***************************************************************************)
NoWrites == [p \in {} |-> 0]

Init ==
    /\ scene \in RenderScenes
    /\ pc = "start"
    /\ x = 0
    /\ y = 0
    /\ image = NoImage
    /\ writes = NoWrites
    /\ ray = NoRay
    /\ sens = NoSens
    /\ hit = FALSE
    /\ colour = black
    /\ k = 1
    /\ hitScaled = FALSE
    /\ hitReversed = FALSE

\* let mut image = DynamicImage::new_rgb8(scene.width, scene.height);
NewImage ==
    /\ pc = "start"
    /\ image' = new_rgb8(scene.width, scene.height)
    /\ x' = 0
    /\ pc' = "outer"
    /\ UNCHANGED <<scene, y, writes, ray, sens, hit, colour, k, hitScaled, hitReversed>>

\* for x in 0..scene.width: one more column.
OuterLoop ==
    /\ pc = "outer"
    /\ x < scene.width
    /\ y' = 0
    /\ pc' = "inner"
    /\ UNCHANGED <<scene, x, image, writes, ray, sens, hit, colour, k, hitScaled, hitReversed>>

\* for x in 0..scene.width: exhausted, render returns image.
Return ==
    /\ pc = "outer"
    /\ x >= scene.width
    /\ pc' = "done"
    /\ UNCHANGED <<scene, x, y, image, writes, ray, sens, hit, colour, k, hitScaled, hitReversed>>

\* The loop body when create_prime's assertion fails.
PixelPanic ==
    /\ pc = "inner"
    /\ y < scene.height
    /\ ~create_prime(x, y, scene).ok
    /\ pc' = "panic"
    /\ UNCHANGED <<scene, x, y, image, writes, ray, sens, hit, colour, k, hitScaled, hitReversed>>

\* The loop body: build the ray, test the sphere, write the pixel.
PixelPut ==
    /\ pc = "inner"
    /\ y < scene.height
    /\ \E made \in {create_prime(x, y, scene)}, loc \in {PixelLoc(x, y)} :
          /\ made.ok
          /\ ray' = made.ray
          /\ sens' = made.sens
          /\ hit' = intersect(scene.sphere, made.ray)
          /\ colour' = PixelColour(scene, made.ray)
          /\ writes' = [p \in DOMAIN writes \cup {loc} |->
                           IF p = loc
                           THEN (IF loc \in DOMAIN writes THEN writes[loc] + 1 ELSE 1)
                           ELSE writes[p]]
          /\ IF loc \in DOMAIN image.pixels
             THEN /\ image' = put_pixel(image, loc, PixelColour(scene, made.ray))
                  /\ y' = y + 1
                  /\ pc' = "inner"
             ELSE \* put_pixel panics on a location outside the buffer
                  /\ image' = image
                  /\ y' = y
                  /\ pc' = "panic"
    /\ UNCHANGED <<scene, x, k, hitScaled, hitReversed>>

\* for y in 0..scene.height: exhausted, next column.
InnerExit ==
    /\ pc = "inner"
    /\ y >= scene.height
    /\ x' = x + 1
    /\ pc' = "outer"
    /\ UNCHANGED <<scene, y, image, writes, ray, sens, hit, colour, k, hitScaled, hitReversed>>

Next ==
    \/ NewImage
    \/ OuterLoop
    \/ Return
    \/ PixelPanic
    \/ PixelPut
    \/ InnerExit

Spec == Init /\ [][Next]_vars

\* render is straight-line sequential code: a step that can be taken is taken.
FairSpec == Spec /\ WF_vars(Next)

(***************************************************************************)
(* One pixel of render on its own: create_prime, intersect and the colour  *)
(* handed to put_pixel are pure functions of (x, y, scene), so a pixel of  *)
(* a large image is examined without running the loop up to it.            *)
(***************************************************************************)
ProbeSpheres == {MainSphere, Sphere(<<0, 0, -2>>, 1, <<10, 0, 0>>)}
ProbeScenes ==
    {Scene(w, h, f, s) : w \in 1 .. MaxProbeDim, h \in 1 .. MaxProbeDim,
                         f \in Fovs, s \in ProbeSpheres}
        \cup {MainScene}

\* Every index of a small axis; the two ends and the middle of a large one.
ProbeIndices(n) == IF n <= MaxProbeDim THEN 0 .. n - 1 ELSE {0, n \div 2, n - 1}

InitPixel ==
    /\ scene \in ProbeScenes
    /\ pc = "pixel"
    /\ x = 0
    /\ y = 0
    /\ image = NoImage
    /\ writes = NoWrites
    /\ ray = NoRay
    /\ sens = NoSens
    /\ hit = FALSE
    /\ colour = black
    /\ k = 1
    /\ hitScaled = FALSE
    /\ hitReversed = FALSE

\* let ray = Ray::create_prime(x, y, scene), the assertion failing.
PrimePanic ==
    /\ pc = "pixel"
    /\ \E px \in ProbeIndices(scene.width), py \in ProbeIndices(scene.height) :
          /\ ~create_prime(px, py, scene).ok
          /\ x' = px
          /\ y' = py
    /\ pc' = "panic"
    /\ UNCHANGED <<scene, image, writes, ray, sens, hit, colour, k, hitScaled, hitReversed>>

\* let ray = Ray::create_prime(x, y, scene).
PrimeRay ==
    /\ pc = "pixel"
    /\ \E px \in ProbeIndices(scene.width), py \in ProbeIndices(scene.height) :
          \E made \in {create_prime(px, py, scene)} :
              /\ made.ok
              /\ x' = px
              /\ y' = py
              /\ ray' = made.ray
              /\ sens' = made.sens
    /\ pc' = "primed"
    /\ UNCHANGED <<scene, image, writes, hit, colour, k, hitScaled, hitReversed>>

\* if scene.sphere.intersect(&ray) { sphere colour } else { black }
Shade ==
    /\ pc = "primed"
    /\ hit' = intersect(scene.sphere, ray)
    /\ colour' = PixelColour(scene, ray)
    /\ pc' = "shaded"
    /\ UNCHANGED <<scene, x, y, image, writes, ray, sens, k, hitScaled, hitReversed>>

NextPixel ==
    \/ PrimePanic
    \/ PrimeRay
    \/ Shade

SpecPixel == InitPixel /\ [][NextPixel]_vars

(***************************************************************************)
(* Sphere::intersect on its own, over rays and spheres of any shape: the   *)
(* fields of Ray and Sphere are public, so intersect can be handed a ray   *)
(* that create_prime never builds.                                         *)
(***************************************************************************)
Coords == -MaxCoord .. MaxCoord
TestCenters == {<<cx, cy, cz>> : cx \in {-1, 0, 1}, cy \in {0, 1}, cz \in Coords}
TestSpheres == {Sphere(c, r, <<4, 10, 4>>) : c \in TestCenters, r \in -MaxRadius .. MaxRadius}
TestOrigins == {<<0, 0, 0>>, <<1, -1, 0>>, <<0, 0, 2>>}

\* Integer directions (unit along an axis, longer otherwise, or zero), unit
\* directions off the axes, and directions shorter than a unit.
TestDirections ==
    {Dir(<<dx, dy, dz>>, 1) : dx \in {-1, 0, 1}, dy \in {-1, 0, 1}, dz \in {-1, 0, 1}}
        \cup {Dir(n, 9) : n \in {<<1, 2, 2>>, <<-1, -2, -2>>, <<2, -1, 2>>, <<-2, 2, 1>>}}
        \cup {Dir(n, 25) : n \in {<<3, 0, -4>>, <<0, -4, 3>>}}
        \cup {Dir(n, 4) : n \in {<<0, 0, -1>>, <<1, 0, 0>>, <<1, -1, 1>>}}
TestRays == {[origin |-> o, direction |-> d] : o \in TestOrigins, d \in TestDirections}

\* The inputs multiplied by f: center, radius and origin; direction unchanged.
ScaleSphere(sphere, f) ==
    [sphere EXCEPT !.center = VScale(sphere.center, f), !.radius = sphere.radius * f]
ScaleRay(r, f) == [r EXCEPT !.origin = VScale(r.origin, f)]
ReverseRay(r) == [r EXCEPT !.direction = Dir(VNeg(r.direction.num), r.direction.den2)]

InitIntersect ==
    /\ scene \in {Scene(800, 600, 90, s) : s \in TestSpheres}
    /\ ray \in TestRays
    /\ k \in 1 .. MaxK
    /\ pc = "input"
    /\ x = 0
    /\ y = 0
    /\ image = NoImage
    /\ writes = NoWrites
    /\ sens = NoSens
    /\ hit = FALSE
    /\ colour = black
    /\ hitScaled = FALSE
    /\ hitReversed = FALSE

\* scene.sphere.intersect(&ray)
Intersect ==
    /\ pc = "input"
    /\ hit' = intersect(scene.sphere, ray)
    /\ pc' = "tested"
    /\ UNCHANGED <<scene, x, y, image, writes, ray, sens, colour, k, hitScaled, hitReversed>>

\* intersect on the inputs scaled by k
IntersectScaled ==
    /\ pc = "tested"
    /\ hitScaled' = intersect(ScaleSphere(scene.sphere, k), ScaleRay(ray, k))
    /\ pc' = "scaled"
    /\ UNCHANGED <<scene, x, y, image, writes, ray, sens, hit, colour, k, hitReversed>>

\* intersect on the ray with its direction negated
IntersectReversed ==
    /\ pc = "scaled"
    /\ hitReversed' = intersect(scene.sphere, ReverseRay(ray))
    /\ pc' = "reversed"
    /\ UNCHANGED <<scene, x, y, image, writes, ray, sens, hit, colour, k, hitScaled>>

NextIntersect ==
    \/ Intersect
    \/ IntersectScaled
    \/ IntersectReversed

SpecIntersect == InitIntersect /\ [][NextIntersect]_vars

(***************************************************************************)
(* Properties.                                                             *)
(***************************************************************************)
Origin3 == <<0, 0, 0>>
ToCenter == VSub(scene.sphere.center, ray.origin)

\* C1: in the scene of main (800 x 600, fov 90, sphere at (0,0,-5) of radius
\* 1) the pixel (400,300) is a hit and gets the sphere colour, and the pixel
\* (0,0) is a miss and gets the background colour.
C1_EndToEnd ==
    (scene = MainScene /\ pc = "shaded") =>
        /\ (x = 400 /\ y = 300) => (hit /\ colour = to_rgba(MainSphere.color))
        /\ (x = 0 /\ y = 0) => (~hit /\ colour = black)

\* C2: a scene with width <= height (a width or height of 0 included) never
\* makes render return an image, and render fails only when width <= height.
C2_AbortsUnlessWider ==
    /\ (scene.width <= scene.height) => pc # "done"
    /\ (pc = "panic") => (scene.width <= scene.height)

\* C3, as claimed: a sphere of radius <= 0 is missed by every ray of
\* unit-length direction.
C3_NonPositiveRadiusMisses ==
    (pc # "input" /\ scene.sphere.radius <= 0 /\ IsUnit(ray.direction)) => ~hit

\* C3, amended: a sphere of radius 0 is missed by every ray of unit-length
\* direction.
C3_ZeroRadiusMisses ==
    (pc # "input" /\ scene.sphere.radius = 0 /\ IsUnit(ray.direction)) => ~hit

\* A sphere of radius 0 whose center lies on the line of a unit ray, away
\* from the origin: the squared distance d2 is 0, equal to radius^2, a miss.
C3_Witness ==
    /\ pc = "tested"
    /\ scene.sphere.radius = 0
    /\ IsUnit(ray.direction)
    /\ ToCenter # Origin3
    /\ Cross(ToCenter, ray.direction.num) = Origin3
    /\ ~hit

\* C4: for fov = 90 and width > height the sensor components of the centre
\* pixel (width/2, height/2) are within one pixel's extent 2/height of 0,
\* and the ray points towards negative z.
C4_CentreRay ==
    (pc \in {"primed", "shaded"} /\ scene.fov = 90
        /\ x = scene.width \div 2 /\ y = scene.height \div 2) =>
        /\ RLeq(RAbs(sens.sensor_x), Rat(2, scene.height))
        /\ RLeq(RAbs(sens.sensor_y), Rat(2, scene.height))
        /\ ray.direction.num[3] < 0

C6_RenderReturns ==
    (pc = "start" /\ scene.width > scene.height) ~>
        (pc = "done" /\ image.width = scene.width /\ image.height = scene.height)

\* render has returned an image of at least two columns and two rows.
C6_Witness ==
    /\ pc = "done"
    /\ scene.width > scene.height
    /\ scene.height >= 2
    /\ image.width = scene.width
    /\ image.height = scene.height

\* C7: on a scene with width > height no location is handed to put_pixel
\* twice, none lies outside 0 <= x < width, 0 <= y < height, and when render
\* returns every location has been written once.
C7_EachPixelOnce ==
    (scene.width > scene.height) =>
        /\ \A loc \in DOMAIN writes :
              writes[loc] = 1 /\ loc \in Locations(scene.width, scene.height)
        /\ (pc = "done") => (DOMAIN writes = Locations(scene.width, scene.height))

\* render has returned after writing the six or more pixels of its image.
C7_Witness ==
    /\ pc = "done"
    /\ scene.width > scene.height
    /\ Cardinality(DOMAIN writes) >= 6
    /\ \A loc \in Locations(scene.width, scene.height) :
          loc \in DOMAIN writes /\ writes[loc] = 1

\* C8: create_prime maps each axis by its own dimension: the horizontal
\* coordinate of column x is 2 (x + 0.5) / width - 1 and the vertical
\* coordinate of row y is 2 (y + 0.5) / height - 1.
C8_PerAxisCoordinates ==
    (pc \in {"primed", "shaded"}) =>
        /\ sens.ndc_x = RSub[RDiv[RMul[RInt(2), Rat(2 * x + 1, 2)], RInt(scene.width)], RInt(1)]
        /\ sens.ndc_y = RSub[RDiv[RMul[RInt(2), Rat(2 * y + 1, 2)], RInt(scene.height)], RInt(1)]

C10_AbortBeforeAnyWrite ==
    (pc = "panic") =>
        /\ x = 0
        /\ y = 0
        /\ DOMAIN writes = {}
        /\ image = new_rgb8(scene.width, scene.height)

\* render has aborted on a scene that has pixels.
C10_Witness ==
    /\ pc = "panic"
    /\ scene.width >= 1
    /\ scene.width <= scene.height
    /\ DOMAIN writes = {}

====
